---- MODULE Spec2Model ----
(***************************************************************************)
(* Model of homework.py: the fitness-tracker calculation module.           *)
(*                                                                         *)
(* Numbers.  The program computes with Python numbers: the sensor values   *)
(* are ints, every formula multiplies or divides by a float literal, so    *)
(* every derived metric is a float.  The model computes the same           *)
(* expressions, in the same order, over exact rationals n/d.  The          *)
(* numerators and denominators outgrow TLC's 32-bit integers (0.278^2      *)
(* alone has denominator 10^6), so n and d are arbitrary-precision         *)
(* naturals: little-endian sequences of base-1000 digits without leading   *)
(* zeros (zero is <<>>); a fraction is kept with the common factors of     *)
(* 1000 cancelled, not in lowest terms, and compared by cross              *)
(* multiplication.  What the model does not see is the rounding of IEEE    *)
(* doubles (720 * 1.38 / 1000 is 0.9935999999999999 in the program and     *)
(* 0.9936 here).  Division by zero raises ZeroDivisionError, as in Python. *)
(*                                                                         *)
(* Strings.  SANY accepts only ASCII inside string literals, and the       *)
(* program's message template is Russian, so a Python str is modelled as   *)
(* the sequence of its Unicode code points.                                *)
(***************************************************************************)
EXTENDS Integers, Sequences, FiniteSets, TLC

(***************************************************************************)
(* Bounds of the model: sensor values are drawn from 0..MaxValue, and a    *)
(* package carries at most MaxExtraArgs values more than the longest       *)
(* constructor takes.                                                      *)
(***************************************************************************)
MaxValue == 1
MaxExtraArgs == 1

(***************************************************************************)
(* Arbitrary-precision naturals.  TLC evaluates on a small stack and       *)
(* passes arguments unevaluated, so a loop keeps its state in one record   *)
(* that its first test reads: each round is then computed before the next  *)
(* one starts.                                                             *)
(***************************************************************************)
Base == 10 * 10 * 10

Digit(a, i) == IF 1 <= i /\ i <= Len(a) THEN a[i] ELSE 0

Max(S) == CHOOSE i \in S : \A j \in S : j <= i

\* a without its leading zero digits
BigNorm(a) ==
    IF a = <<>> THEN <<>>
    ELSE IF a[Len(a)] # 0 THEN a
    ELSE LET nz == {i \in 1..Len(a) : a[i] # 0}
         IN  IF nz = {} THEN <<>> ELSE SubSeq(a, 1, Max(nz))

BigOfNat(k) ==
    BigNorm(<<k % Base, (k \div Base) % Base, (k \div (Base * Base)) % Base,
              k \div (Base * Base * Base)>>)

\* one round of carry propagation: v is the column's value plus the carry in
BigCarryStep(st, v) ==
    [k |-> st.k + 1, c |-> v \div Base, out |-> Append(st.out, v % Base)]

\* the digits of the number whose n columns are col[1], ..., col[n] (column k
\* weighs Base^(k-1) and may hold any integer, the sum being a natural below
\* Base^n): the carries, or borrows, are propagated upwards
RECURSIVE BigCarry(_, _, _)
BigCarry(col, n, st) ==
    IF st.k > n THEN BigNorm(st.out)
    ELSE BigCarry(col, n, BigCarryStep(st, col[st.k] + st.c))

BigDigits(col, n) == BigCarry(col, n, [k |-> 1, c |-> 0, out |-> <<>>])

\* the longer of two lengths
Longer(m, n) == IF m > n THEN m ELSE n

BigAdd(a, b) ==
    IF a = <<>> THEN b
    ELSE IF b = <<>> THEN a
    ELSE BigDigits([k \in 1..(Longer(Len(a), Len(b)) + 1) |-> Digit(a, k) + Digit(b, k)],
                   Longer(Len(a), Len(b)) + 1)

\* a - b, for a >= b
BigSub(a, b) ==
    IF b = <<>> THEN a
    ELSE BigDigits([k \in 1..Len(a) |-> a[k] - Digit(b, k)], Len(a))

\* a * Base^k
BigShift(a, k) == IF a = <<>> THEN <<>> ELSE [i \in 1..k |-> 0] \o a

\* the sum of a[i] * b[k + 1 - i] for i in lo..hi
RECURSIVE BigColumn(_, _, _, _, _)
BigColumn(a, b, k, lo, hi) ==
    IF lo > hi THEN 0
    ELSE IF lo = hi THEN a[lo] * b[k + 1 - lo]
    ELSE BigColumn(a, b, k, lo, (lo + hi) \div 2)
             + BigColumn(a, b, k, (lo + hi) \div 2 + 1, hi)

BigMul(a, b) ==
    IF a = <<>> \/ b = <<>> THEN <<>>
    ELSE BigDigits([k \in 1..(Len(a) + Len(b) + 1) |->
                       BigColumn(a, b, k,
                                 IF k > Len(b) THEN k + 1 - Len(b) ELSE 1,
                                 IF k < Len(a) THEN k ELSE Len(a))],
                   Len(a) + Len(b) + 1)

\* -1, 0, 1 as a < b, a = b, a > b
BigCmp(a, b) ==
    IF Len(a) < Len(b) THEN 0 - 1
    ELSE IF Len(a) > Len(b) THEN 1
    ELSE LET diff == {i \in 1..Len(a) : a[i] # b[i]}
         IN  IF diff = {} THEN 0
             ELSE IF a[Max(diff)] < b[Max(diff)] THEN 0 - 1 ELSE 1

\* t * b <= r, for a digit t
BigFits(t, b, r) == 0 <= t /\ t < Base /\ BigCmp(BigMul(b, BigOfNat(t)), r) <= 0

\* floor(r / b) for 0 <= r < Base * b: the quotient of the leading three digits
\* of r by the leading two of b is off by at most one
BigQuotDigit(r, b) ==
    LET m   == Len(b)
        r3  == (Digit(r, m + 1) * Base + Digit(r, m)) * Base + Digit(r, m - 1)
        b2  == b[m] * Base + Digit(b, m - 1)
        est == r3 \div b2
    IN  IF BigFits(est + 1, b, r) THEN est + 1
        ELSE IF BigFits(est, b, r) THEN est
        ELSE est - 1

\* long division of a by b # 0: st.q is floor(a / (b * Base^st.k)), and digit
\* st.k of the quotient comes next
RECURSIVE BigQuot(_, _, _)
BigQuot(a, b, st) ==
    IF st.k = 0 THEN st.q
    ELSE LET hi == BigShift(st.q, 1)
             r  == BigSub(BigNorm(SubSeq(a, st.k, Len(a))), BigMul(hi, b))
         IN  BigQuot(a, b, [k |-> st.k - 1,
                            q |-> BigAdd(hi, BigOfNat(BigQuotDigit(r, b)))])

\* floor(a / b), b # 0
BigDiv(a, b) ==
    IF Len(a) < Len(b) THEN <<>>
    ELSE BigQuot(a, b, [k |-> Len(a) - Len(b) + 1, q |-> <<>>])

(***************************************************************************)
(* Python numbers: exc = "" and the value n/d, or a raised exception.      *)
(* An operand that raised propagates, as an exception does through an      *)
(* expression.                                                             *)
(***************************************************************************)
\* n/d with the common factors of 1000 cancelled (the common low zero digits)
Frac(n, d) ==
    IF n = <<>> THEN [exc |-> "", n |-> <<>>, d |-> <<1>>]
    ELSE IF n[1] # 0 \/ d[1] # 0 THEN [exc |-> "", n |-> n, d |-> d]
    ELSE LET z == Max({j \in 1..Len(n) : \A i \in 1..j : n[i] = 0 /\ Digit(d, i) = 0})
         IN  [exc |-> "", n |-> SubSeq(n, z + 1, Len(n)), d |-> SubSeq(d, z + 1, Len(d))]

Rat(n, d) == Frac(BigOfNat(n), BigOfNat(d))
Num(k) == Rat(k, 1)
Raise(e) == [exc |-> e, n |-> <<>>, d |-> <<>>]
IsZero(x) == x.n = <<>>

\* x == y as numbers
NumEq(x, y) == x.exc = "" /\ y.exc = "" /\ BigMul(x.n, y.d) = BigMul(y.n, x.d)
\* x < y as numbers
NumLt(x, y) == x.exc = "" /\ y.exc = "" /\ BigCmp(BigMul(x.n, y.d), BigMul(y.n, x.d)) < 0

\* x * y
Mul(x, y) ==
    IF x.exc # "" THEN x ELSE IF y.exc # "" THEN y
    ELSE Frac(BigMul(x.n, y.n), BigMul(x.d, y.d))

\* x / y (true division)
Div(x, y) ==
    IF x.exc # "" THEN x ELSE IF y.exc # "" THEN y
    ELSE IF IsZero(y) THEN Raise("ZeroDivisionError")
    ELSE Frac(BigMul(x.n, y.d), BigMul(x.d, y.n))

\* x + y
Add(x, y) ==
    IF x.exc # "" THEN x ELSE IF y.exc # "" THEN y
    ELSE Frac(BigAdd(BigMul(x.n, y.d), BigMul(y.n, x.d)), BigMul(x.d, y.d))

\* x ** 2
Sqr(x) == Mul(x, x)

(***************************************************************************)
(* The state.                                                              *)
(*   classAttrs  the class attributes (the per-variant constants), by      *)
(*               class; an attribute a class does not define is looked up  *)
(*               in its base class Training                                *)
(*   request     the package handed to read_package in this iteration of   *)
(*               the main loop, or NoRequest between iterations            *)
(*   training    the record read_package returned, or NoTraining           *)
(*   raised      the exception the last call raised, "" when it returned   *)
(*   returned    the last call on the record, what it returned, and        *)
(*               whether that method had been called on the record before  *)
(*   first       per query method, what its first call on this record      *)
(*               returned                                                  *)
(*   printed     the line main() printed for this record, <<>> when none   *)
(***************************************************************************)
VARIABLES classAttrs, request, training, raised, returned, first, printed

vars == <<classAttrs, request, training, raised, returned, first, printed>>

NoRequest == [training_type |-> "", data |-> <<>>, idle |-> TRUE]
NoTraining == [cls |-> "None"]
NoReturn == [call |-> ""]
NotCalled == [called |-> FALSE]

Queries == {"get_distance", "get_mean_speed", "get_spent_calories", "show_training_info"}

(***************************************************************************)
(* Class attributes.                                                       *)
(***************************************************************************)
Training_attrs ==
    [LEN_STEP |-> Rat(65, 100), M_IN_KM |-> Num(1000), M_IN_H |-> Num(60)]

Running_attrs ==
    [CALORIES_MEAN_SPEED_MULTIPLIER |-> Num(18),
     CALORIES_MEAN_SPEED_SHIFT |-> Rat(179, 100)]

SportsWalking_attrs ==
    [CALORIES_VELOCITY_MULTIPLIER |-> Rat(35, 1000),
     CALORIES_WEIGHT_MULTIPLIER |-> Rat(29, 1000),
     M_PER_SEC |-> Rat(278, 1000),
     HGT_IN_M |-> Num(100)]

Swimming_attrs ==
    [LEN_STEP |-> Rat(138, 100),
     MEAN_SPEED_SHIFT |-> Rat(11, 10),
     MEAN_SPEED_MULTIPLIER |-> Num(2)]

ClassTable ==
    [Training |-> Training_attrs, Running |-> Running_attrs,
     SportsWalking |-> SportsWalking_attrs, Swimming |-> Swimming_attrs]

\* self.NAME: the class of self first, then the base class
Attr(self, name) ==
    IF name \in DOMAIN classAttrs[self.cls]
    THEN classAttrs[self.cls][name]
    ELSE classAttrs["Training"][name]

(***************************************************************************)
(* Constructors.  A call binds the positional arguments to the parameters  *)
(* of __init__ and raises TypeError when their number differs.             *)
(***************************************************************************)
Training__init__(self, action, duration, weight) ==
    self @@ [action |-> action, duration |-> duration, weight |-> weight]

SportsWalking__init__(self, action, duration, weight, height) ==
    Training__init__(self, action, duration, weight) @@ [height |-> height]

\* a faulty Swimming.__init__: the two pool arguments land in each other's field
Swimming__init__swapped(self, action, duration, weight, length_pool, count_pool) ==
    Training__init__(self, action, duration, weight)
        @@ [length_pool |-> count_pool, count_pool |-> length_pool]

Swimming__init__(self, action, duration, weight, length_pool, count_pool) ==
    Training__init__(self, action, duration, weight)
        @@ [length_pool |-> length_pool, count_pool |-> count_pool]

\* the number of positional parameters of each class's __init__, self aside
Arity == [Training |-> 3, Running |-> 3, SportsWalking |-> 4, Swimming |-> 5]

\* cls.__init__(self, *data) on a new object, for as many values as it takes
Construct(cls, data) ==
    CASE cls = "Swimming" ->
             Swimming__init__([cls |-> cls], data[1], data[2], data[3], data[4], data[5])
      [] cls = "SportsWalking" ->
             SportsWalking__init__([cls |-> cls], data[1], data[2], data[3], data[4])
      [] OTHER ->
             Training__init__([cls |-> cls], data[1], data[2], data[3])

\* a faulty call: values beyond the parameters are dropped instead of refused
NewLenient(cls, data) ==
    IF Len(data) < Arity[cls]
    THEN [exc |-> "TypeError", arg |-> cls, value |-> NoTraining]
    ELSE [exc |-> "", arg |-> "", value |-> Construct(cls, data)]

\* training_class(*data)
New(cls, data) ==
    IF Len(data) # Arity[cls]
    THEN [exc |-> "TypeError", arg |-> cls, value |-> NoTraining]
    ELSE [exc |-> "", arg |-> "", value |-> Construct(cls, data)]

(***************************************************************************)
(* read_package.                                                           *)
(***************************************************************************)
training_types == [RUN |-> "Running", WLK |-> "SportsWalking", SWM |-> "Swimming"]

\* the exception class ValueError, the object the guard looks up among the keys
ValueErrorClass == "<class 'ValueError'>"

read_package(training_type, data) ==
    IF ValueErrorClass \in DOMAIN training_types
    THEN [exc |-> "ValueError", arg |-> training_type, value |-> NoTraining]
    ELSE IF training_type \notin DOMAIN training_types
    THEN [exc |-> "KeyError", arg |-> training_type, value |-> NoTraining]
    ELSE New(training_types[training_type], data)

(***************************************************************************)
(* The metrics.                                                            *)
(***************************************************************************)
Training_get_distance(self) ==
    Div(Mul(Num(self.action), Attr(self, "LEN_STEP")), Attr(self, "M_IN_KM"))

\* a faulty Swimming.get_distance: the step length of the base class
Swimming_get_distance_steps(self) ==
    Div(Div(Mul(Num(self.action), classAttrs["Training"]["LEN_STEP"]),
            Attr(self, "M_IN_KM")),
        Num(self.duration))

Swimming_get_distance(self) ==
    Div(Div(Mul(Num(self.action), Attr(self, "LEN_STEP")), Attr(self, "M_IN_KM")),
        Num(self.duration))

get_distance(self) ==
    IF self.cls = "Swimming" THEN Swimming_get_distance(self)
    ELSE Training_get_distance(self)

Training_get_mean_speed(self) == Div(get_distance(self), Num(self.duration))

\* a faulty Swimming.get_mean_speed: the distance over the duration, as in the
\* base class
Swimming_get_mean_speed_inherited(self) == Div(get_distance(self), Num(self.duration))

Swimming_get_mean_speed(self) ==
    Div(Div(Mul(Num(self.length_pool), Num(self.count_pool)), Attr(self, "M_IN_KM")),
        Num(self.duration))

get_mean_speed(self) ==
    IF self.cls = "Swimming" THEN Swimming_get_mean_speed(self)
    ELSE Training_get_mean_speed(self)

Training_get_spent_calories(self) == Raise("NotImplementedError")

\* a faulty Running.get_spent_calories: the duration left in hours
Running_get_spent_calories_hours(self) ==
    LET speed == get_mean_speed(self)
    IN  Mul(Div(Mul(Add(Mul(Attr(self, "CALORIES_MEAN_SPEED_MULTIPLIER"), speed),
                        Attr(self, "CALORIES_MEAN_SPEED_SHIFT")),
                    Num(self.weight)),
                Attr(self, "M_IN_KM")),
            Num(self.duration))

\* a faulty Running.get_spent_calories: the multiplier applied to the duration
\* instead of the mean speed
Running_get_spent_calories_duration(self) ==
    Mul(Mul(Div(Mul(Add(Mul(Attr(self, "CALORIES_MEAN_SPEED_MULTIPLIER"),
                            Num(self.duration)),
                        Attr(self, "CALORIES_MEAN_SPEED_SHIFT")),
                    Num(self.weight)),
                Attr(self, "M_IN_KM")),
            Num(self.duration)),
        Num(60))

Running_get_spent_calories(self) ==
    LET speed == get_mean_speed(self)
    IN  Mul(Mul(Div(Mul(Add(Mul(Attr(self, "CALORIES_MEAN_SPEED_MULTIPLIER"), speed),
                            Attr(self, "CALORIES_MEAN_SPEED_SHIFT")),
                        Num(self.weight)),
                    Attr(self, "M_IN_KM")),
                Num(self.duration)),
            Num(60))

SportsWalking_get_spent_calories(self) ==
    LET speed == Mul(get_mean_speed(self), Attr(self, "M_PER_SEC"))
    IN  Mul(Add(Mul(Attr(self, "CALORIES_VELOCITY_MULTIPLIER"), Num(self.weight)),
                Mul(Mul(Div(Sqr(speed),
                            Div(Num(self.height), Attr(self, "HGT_IN_M"))),
                        Attr(self, "CALORIES_WEIGHT_MULTIPLIER")),
                    Num(self.weight))),
            Mul(Num(self.duration), Attr(self, "M_IN_H")))

Swimming_get_spent_calories(self) ==
    Mul(Mul(Mul(Add(get_mean_speed(self), Attr(self, "MEAN_SPEED_SHIFT")),
                Attr(self, "MEAN_SPEED_MULTIPLIER")),
            Num(self.weight)),
        Num(self.duration))

get_spent_calories(self) ==
    CASE self.cls = "Running" -> Running_get_spent_calories(self)
      [] self.cls = "SportsWalking" -> SportsWalking_get_spent_calories(self)
      [] self.cls = "Swimming" -> Swimming_get_spent_calories(self)
      [] OTHER -> Training_get_spent_calories(self)

(***************************************************************************)
(* InfoMessage.  str.format substitutes each replacement field of the      *)
(* template: {training_type} by the string itself, a {name:.3f} field by   *)
(* the number rounded to three decimals.  Python rounds the double it      *)
(* holds; the model holds the exact value, which can lie exactly halfway   *)
(* between two three-decimal numbers where the double lies on one side     *)
(* (10 * 0.65 / 1000 prints as 0.006), so at an exact tie either           *)
(* neighbour is a possible rendering.                                      *)
(***************************************************************************)
\* "Тип тренировки: "
TemplateText1 ==
    <<1058, 1080, 1087, 32, 1090, 1088, 1077, 1085, 1080, 1088, 1086,
    1074, 1082, 1080, 58, 32>>

\* "; Длительность: "
TemplateText2 ==
    <<59, 32, 1044, 1083, 1080, 1090, 1077, 1083, 1100, 1085, 1086,
    1089, 1090, 1100, 58, 32>>

\* " ч.; Дистанция: "
TemplateText3 ==
    <<32, 1095, 46, 59, 32, 1044, 1080, 1089, 1090, 1072, 1085, 1094,
    1080, 1103, 58, 32>>

\* " км; Ср. скорость: "
TemplateText4 ==
    <<32, 1082, 1084, 59, 32, 1057, 1088, 46, 32, 1089, 1082, 1086,
    1088, 1086, 1089, 1090, 1100, 58, 32>>

\* " км/ч; Потрачено ккал: "
TemplateText5 ==
    <<32, 1082, 1084, 47, 1095, 59, 32, 1055, 1086, 1090, 1088, 1072,
    1095, 1077, 1085, 1086, 32, 1082, 1082, 1072, 1083, 58, 32>>

\* "."
TemplateText6 == <<46>>

Text(s) == [text |-> s, field |-> "", fmt |-> ""]
Field(name, fmt) == [text |-> <<>>, field |-> name, fmt |-> fmt]

MESSAGE_TEMPLATE ==
    << Text(TemplateText1), Field("training_type", ""),
       Text(TemplateText2), Field("duration", ".3f"),
       Text(TemplateText3), Field("distance", ".3f"),
       Text(TemplateText4), Field("speed", ".3f"),
       Text(TemplateText5), Field("calories", ".3f"),
       Text(TemplateText6) >>

\* the decimal digits of k < 1000: all three, or without leading zeros
Digits3(k) == <<48 + (k \div 100), 48 + ((k \div 10) % 10), 48 + (k % 10)>>
DigitsTop(k) ==
    IF k >= 100 THEN Digits3(k)
    ELSE IF k >= 10 THEN <<48 + (k \div 10), 48 + (k % 10)>>
    ELSE <<48 + k>>

\* the decimal digits of a natural > 0 (its base-1000 digits are groups of three)
RECURSIVE Decimal(_)
Decimal(a) ==
    IF Len(a) = 1 THEN DigitsTop(a[1]) ELSE Decimal(Tail(a)) \o Digits3(Head(a))

\* the thousandths nearest to x: one natural, or both neighbours at an exact tie
Thousandths(x) ==
    LET q  == BigDiv(BigShift(x.n, 1), x.d)
        up == BigAdd(q, <<1>>)
        \* 2 * (1000 * n) against (2 * q + 1) * d
        c  == BigCmp(BigAdd(BigShift(x.n, 1), BigShift(x.n, 1)),
                     BigMul(BigAdd(BigAdd(q, q), <<1>>), x.d))
    IN  IF c < 0 THEN {q} ELSE IF c > 0 THEN {up} ELSE {q, up}

\* "%.3f" of t thousandths
Fixed3(t) ==
    (IF Len(t) <= 1 THEN <<48>> ELSE Decimal(Tail(t)))
        \o <<46>> \o Digits3(IF t = <<>> THEN 0 ELSE t[1])

\* format(value, fmt): the possible renderings
FormatValue(value, fmt) ==
    IF fmt = ".3f" THEN {Fixed3(t) : t \in Thousandths(value)} ELSE {value}

\* template.format(**kwargs): the possible results, the parts lo..hi of the template
RECURSIVE FormatParts(_, _, _, _)
FormatParts(template, kwargs, lo, hi) ==
    IF lo > hi THEN {<<>>}
    ELSE IF lo = hi
    THEN IF template[lo].field = "" THEN {template[lo].text}
         ELSE FormatValue(kwargs[template[lo].field], template[lo].fmt)
    ELSE {h \o t : h \in FormatParts(template, kwargs, lo, (lo + hi) \div 2),
                   t \in FormatParts(template, kwargs, (lo + hi) \div 2 + 1, hi)}

Format(template, kwargs) == FormatParts(template, kwargs, 1, Len(template))

InfoMessage__init__(training_type, duration, distance, speed, calories) ==
    [exc |-> "", training_type |-> training_type, duration |-> duration,
     distance |-> distance, speed |-> speed, calories |-> calories]

\* a call of show_training_info that raised e
NoInfoMessage(e) ==
    [exc |-> e, training_type |-> <<>>, duration |-> Raise(e),
     distance |-> Raise(e), speed |-> Raise(e), calories |-> Raise(e)]

get_message(self) ==
    Format(MESSAGE_TEMPLATE,
           [training_type |-> self.training_type, duration |-> self.duration,
            distance |-> self.distance, speed |-> self.speed,
            calories |-> self.calories])

\* self.__class__.__name__
ClassName(self) ==
    CASE self.cls = "Running" -> <<82, 117, 110, 110, 105, 110, 103>>
      [] self.cls = "SportsWalking" ->
             <<83, 112, 111, 114, 116, 115, 87, 97, 108, 107, 105, 110, 103>>
      [] self.cls = "Swimming" -> <<83, 119, 105, 109, 109, 105, 110, 103>>
      [] OTHER -> <<84, 114, 97, 105, 110, 105, 110, 103>>

\* a faulty show_training_info: distance and mean speed in each other's slot
show_training_info_swapped(self) ==
    LET distance == get_distance(self)
        speed    == get_mean_speed(self)
        calories == get_spent_calories(self)
    IN  IF distance.exc # "" THEN NoInfoMessage(distance.exc)
        ELSE IF speed.exc # "" THEN NoInfoMessage(speed.exc)
        ELSE IF calories.exc # "" THEN NoInfoMessage(calories.exc)
        ELSE InfoMessage__init__(ClassName(self), Num(self.duration),
                                 speed, distance, calories)

\* the arguments are evaluated left to right; the first that raises ends the call
show_training_info(self) ==
    LET distance == get_distance(self)
        speed    == get_mean_speed(self)
        calories == get_spent_calories(self)
    IN  IF distance.exc # "" THEN NoInfoMessage(distance.exc)
        ELSE IF speed.exc # "" THEN NoInfoMessage(speed.exc)
        ELSE IF calories.exc # "" THEN NoInfoMessage(calories.exc)
        ELSE InfoMessage__init__(ClassName(self), Num(self.duration),
                                 distance, speed, calories)

(***************************************************************************)
(* The packages the model hands to read_package: the three the program's   *)
(* own main block reads, and every type code below with every list of at   *)
(* most MaxArity + MaxExtraArgs values of 0..MaxValue.                      *)
(***************************************************************************)
packages ==
    { [training_type |-> "SWM", data |-> <<720, 1, 80, 25, 40>>],
      [training_type |-> "RUN", data |-> <<15000, 1, 75>>],
      [training_type |-> "WLK", data |-> <<9000, 1, 75, 180>>] }

TypeCodes == {"RUN", "WLK", "SWM", "XYZ", "run"}
Values == 0..MaxValue
MaxArity == Arity["Swimming"]
DataLists == UNION {[1..k -> Values] : k \in 0..(MaxArity + MaxExtraArgs)}
Packages ==
    packages \cup {[training_type |-> c, data |-> d] : c \in TypeCodes, d \in DataLists}

(***************************************************************************)
(* The operations.                                                         *)
(***************************************************************************)
Init ==
    /\ classAttrs = ClassTable
    /\ request = NoRequest
    /\ training = NoTraining
    /\ raised = ""
    /\ returned = NoReturn
    /\ first = [q \in Queries |-> NotCalled]
    /\ printed = <<>>

\* what a call of query q leaves in returned, raised and first
Record(q, value) ==
    /\ returned' = [call |-> q, value |-> value, again |-> first[q].called]
    /\ raised' = value.exc
    /\ first' = IF first[q].called THEN first
                ELSE [first EXCEPT ![q] = [called |-> TRUE, value |-> value]]

\* training = read_package(workout_type, data)
ReadPackage ==
    /\ request = NoRequest
    /\ \E p \in Packages :
          LET r == read_package(p.training_type, p.data)
          IN  /\ request' = p
              /\ training' = r.value
              /\ raised' = r.exc
    /\ returned' = NoReturn
    /\ first' = [q \in Queries |-> NotCalled]
    /\ printed' = <<>>
    /\ UNCHANGED classAttrs

GetDistance ==
    /\ training # NoTraining
    /\ Record("get_distance", get_distance(training))
    /\ UNCHANGED <<classAttrs, request, training, printed>>

GetMeanSpeed ==
    /\ training # NoTraining
    /\ Record("get_mean_speed", get_mean_speed(training))
    /\ UNCHANGED <<classAttrs, request, training, printed>>

\* a faulty get_spent_calories: the duration is converted to minutes in place
GetSpentCalories_in_place ==
    /\ training # NoTraining
    /\ Record("get_spent_calories", get_spent_calories(training))
    /\ training' = [training EXCEPT !.duration = @ * 60]
    /\ UNCHANGED <<classAttrs, request, printed>>

GetSpentCalories ==
    /\ training # NoTraining
    /\ Record("get_spent_calories", get_spent_calories(training))
    /\ UNCHANGED <<classAttrs, request, training, printed>>

ShowTrainingInfo ==
    /\ training # NoTraining
    /\ Record("show_training_info", show_training_info(training))
    /\ UNCHANGED <<classAttrs, request, training, printed>>

\* main(training): the report is printed unless show_training_info raised
Main ==
    /\ training # NoTraining
    /\ LET message == show_training_info(training)
       IN  /\ Record("show_training_info", message)
           /\ IF message.exc # "" THEN printed' = printed
              ELSE \E line \in get_message(message) : printed' = line
    /\ UNCHANGED <<classAttrs, request, training>>

\* the loop goes on to the next package; the record is dropped
NextPackage ==
    /\ request # NoRequest
    /\ request' = NoRequest
    /\ training' = NoTraining
    /\ raised' = ""
    /\ returned' = NoReturn
    /\ first' = [q \in Queries |-> NotCalled]
    /\ printed' = <<>>
    /\ UNCHANGED classAttrs

Next ==
    \/ ReadPackage
    \/ GetDistance
    \/ GetMeanSpeed
    \/ GetSpentCalories
    \/ ShowTrainingInfo
    \/ Main
    \/ NextPackage

Spec == Init /\ [][Next]_vars

(***************************************************************************)
(* Properties.  A result is compared as a Python value: the same exception, *)
(* or the same number.                                                     *)
(***************************************************************************)
SameResult(x, y) == x.exc = y.exc /\ (x.exc = "" => NumEq(x, y))

Recognized == {"RUN", "WLK", "SWM"}
Requested == request # NoRequest
SamplePackage(code) == CHOOSE p \in packages : p.training_type = code

\* C1 (as the specification states it): for every type code other than
\* "RUN", "WLK", "SWM", and any parameter list, read_package raises ValueError
\* and returns no record.
C1_UnknownCodeRaisesValueError ==
    (Requested /\ request.training_type \notin Recognized)
        => (raised = "ValueError" /\ training = NoTraining)

\* C1, what the program does: an unknown code leaves read_package with KeyError.
C1_UnknownCodeRaisesKeyError ==
    /\ Requested
    /\ request.training_type = "XYZ"
    /\ raised = "KeyError"
    /\ training = NoTraining

\* C2: for "RUN" with 3, "WLK" with 4 and "SWM" with 5 parameters, the record
\* is of the variant Running, SportsWalking, Swimming, and its fields hold
\* the parameters in positional order: action, duration, weight, then height
\* for WLK, or length_pool and count_pool for SWM.
C2_MatchingVariant ==
    /\ (Requested /\ request.training_type = "RUN" /\ Len(request.data) = 3)
          => training = [cls |-> "Running", action |-> request.data[1],
                         duration |-> request.data[2], weight |-> request.data[3]]
    /\ (Requested /\ request.training_type = "WLK" /\ Len(request.data) = 4)
          => training = [cls |-> "SportsWalking", action |-> request.data[1],
                         duration |-> request.data[2], weight |-> request.data[3],
                         height |-> request.data[4]]
    /\ (Requested /\ request.training_type = "SWM" /\ Len(request.data) = 5)
          => training = [cls |-> "Swimming", action |-> request.data[1],
                         duration |-> request.data[2], weight |-> request.data[3],
                         length_pool |-> request.data[4],
                         count_pool |-> request.data[5]]

C2_SwimmingConstructed ==
    /\ Requested
    /\ request.training_type = "SWM"
    /\ Len(request.data) = 5
    /\ request.data[4] # request.data[5]
    /\ training.cls = "Swimming"

\* C3: for a recognized type code with fewer or more parameters than the
\* variant takes (3 for RUN, 4 for WLK, 5 for SWM), read_package raises the
\* construction error (TypeError) and there is no record.
C3_ArityMismatch ==
    (/\ Requested
     /\ \/ request.training_type = "RUN" /\ Len(request.data) # 3
        \/ request.training_type = "WLK" /\ Len(request.data) # 4
        \/ request.training_type = "SWM" /\ Len(request.data) # 5)
        => (raised = "TypeError" /\ training = NoTraining)

C3_TooManyParameters ==
    /\ Requested
    /\ request.training_type = "RUN"
    /\ Len(request.data) = 4
    /\ raised = "TypeError"

\* C4 (as the specification states it): no record is constructed from a
\* non-positive value, so every record has a positive duration (and action,
\* weight, height, pool values), and no division by zero is ever reached.
C4_NonPositiveRejected ==
    /\ training # NoTraining
          => \A f \in DOMAIN training \ {"cls"} : training[f] > 0
    /\ raised # "ZeroDivisionError"

\* C4, what the program does: a record with duration 0 exists, and its mean
\* speed divides by zero.
C4_ZeroDurationRecord ==
    /\ training # NoTraining
    /\ training.duration = 0
    /\ returned.call = "get_mean_speed"
    /\ raised = "ZeroDivisionError"

\* the record read_package builds from the package of training, with another
\* action count
WithAction(a) == read_package(request.training_type, <<a>> \o Tail(request.data)).value

\* the action counts a record is compared with
OtherActions == Values \cup {p.data[1] : p \in packages}

\* C6: get_distance returns action * 0.65 / 1000 for a Running and a
\* SportsWalking record, and action * 1.38 / 1000 / duration for a Swimming
\* record; SWM [720, 1, 80, 25, 40] gives 0.9936 and RUN [15000, 1, 75]
\* gives 9.75.
C6_Distance ==
    returned.call = "get_distance" =>
        /\ training.cls \in {"Running", "SportsWalking"}
              => SameResult(returned.value,
                            Div(Mul(Num(training.action), Rat(65, 100)), Num(1000)))
        /\ training.cls = "Swimming"
              => SameResult(returned.value,
                            Div(Div(Mul(Num(training.action), Rat(138, 100)), Num(1000)),
                                Num(training.duration)))
        /\ request = SamplePackage("SWM") => NumEq(returned.value, Rat(9936, 10000))
        /\ request = SamplePackage("RUN") => NumEq(returned.value, Rat(975, 100))

C6_SwimmingDistance ==
    /\ returned.call = "get_distance"
    /\ training.cls = "Swimming"
    /\ training.action > 0
    /\ training.duration > 0
    /\ returned.value.exc = ""

\* C7: get_mean_speed returns get_distance() / duration for a Running and a
\* SportsWalking record, and length_pool * count_pool / 1000 / duration for a
\* Swimming record, whose mean speed is therefore that of every Swimming
\* record differing from it only in action.
C7_MeanSpeed ==
    returned.call = "get_mean_speed" =>
        /\ training.cls \in {"Running", "SportsWalking"}
              => SameResult(returned.value,
                            Div(get_distance(training), Num(training.duration)))
        /\ training.cls = "Swimming"
              => /\ SameResult(returned.value,
                               Div(Div(Mul(Num(training.length_pool),
                                           Num(training.count_pool)),
                                       Num(1000)),
                                   Num(training.duration)))
                 /\ \A a \in OtherActions :
                        SameResult(returned.value, get_mean_speed(WithAction(a)))

C7_SwimmingMeanSpeed ==
    /\ returned.call = "get_mean_speed"
    /\ training.cls = "Swimming"
    /\ training.action > 0
    /\ returned.value.exc = ""
    /\ ~IsZero(returned.value)

\* C8: get_spent_calories returns, with the record's own mean speed,
\* (18 * mean_speed + 1.79) * weight / 1000 * duration * 60 for Running,
\* (0.035 * weight + ((mean_speed * 0.278)^2 / (height / 100)) * 0.029 * weight)
\* * (duration * 60) for SportsWalking, and (mean_speed + 1.1) * 2 * weight *
\* duration for Swimming; SWM [720, 1, 80, 25, 40] gives 336.
C8_Calories ==
    returned.call = "get_spent_calories" =>
        /\ training.cls = "Running"
              => SameResult(returned.value,
                     Mul(Mul(Div(Mul(Add(Mul(Num(18), get_mean_speed(training)),
                                         Rat(179, 100)),
                                     Num(training.weight)),
                                 Num(1000)),
                             Num(training.duration)),
                         Num(60)))
        /\ training.cls = "SportsWalking"
              => SameResult(returned.value,
                     Mul(Add(Mul(Rat(35, 1000), Num(training.weight)),
                             Mul(Mul(Div(Sqr(Mul(get_mean_speed(training),
                                                 Rat(278, 1000))),
                                         Div(Num(training.height), Num(100))),
                                     Rat(29, 1000)),
                                 Num(training.weight))),
                         Mul(Num(training.duration), Num(60))))
        /\ training.cls = "Swimming"
              => SameResult(returned.value,
                     Mul(Mul(Mul(Add(get_mean_speed(training), Rat(11, 10)),
                                 Num(2)),
                             Num(training.weight)),
                         Num(training.duration)))
        /\ request = SamplePackage("SWM") => NumEq(returned.value, Num(336))

C8_WalkingCalories ==
    /\ returned.call = "get_spent_calories"
    /\ training.cls = "SportsWalking"
    /\ training.action > 0
    /\ training.weight > 0
    /\ returned.value.exc = ""

\* C10: of two Running records with the same positive weight and the same
\* positive duration, the one with the greater action count has the strictly
\* greater mean speed and the strictly greater get_spent_calories.
C10_Monotone ==
    (/\ returned.call = "get_spent_calories"
     /\ training.cls = "Running"
     /\ training.weight > 0
     /\ training.duration > 0)
        => \A a \in OtherActions :
               a < training.action
                   => /\ NumLt(get_mean_speed(WithAction(a)), get_mean_speed(training))
                      /\ NumLt(get_spent_calories(WithAction(a)), returned.value)

C10_RunningPair ==
    /\ returned.call = "get_spent_calories"
    /\ training.cls = "Running"
    /\ training.weight > 0
    /\ training.duration > 0
    /\ \E a \in OtherActions : 0 < a /\ a < training.action

(***************************************************************************)
(* The report, read back from the printed line: a line renders a list of    *)
(* parts when it is their concatenation, a text part standing for itself    *)
(* and a number part for digits, a point and exactly three digits that name *)
(* a thousandth nearest to the number.                                      *)
(***************************************************************************)
IsDigit(c) == 48 <= c /\ c <= 57

Least(S) == CHOOSE i \in S : \A j \in S : i <= j

\* the number that at most three decimal digits denote
RECURSIVE DigitsValue(_)
DigitsValue(ds) ==
    IF ds = <<>> THEN 0
    ELSE DigitsValue(SubSeq(ds, 1, Len(ds) - 1)) * 10 + (ds[Len(ds)] - 48)

\* the natural that decimal digits denote, leading zeros kept
RECURSIVE DecimalValue(_)
DecimalValue(ds) ==
    IF Len(ds) <= 3 THEN <<DigitsValue(ds)>>
    ELSE <<DigitsValue(SubSeq(ds, Len(ds) - 2, Len(ds)))>>
             \o DecimalValue(SubSeq(ds, 1, Len(ds) - 3))

\* the number of thousandths that f = "ddd.ddd" denotes
ThousandthsOf(f) ==
    BigNorm(<<DigitsValue(SubSeq(f, Len(f) - 2, Len(f)))>>
                \o DecimalValue(SubSeq(f, 1, Len(f) - 4)))

\* | x - t / 1000 | <= 1 / 2000
NearestThousandth(t, x) ==
    LET a    == BigShift(x.n, 1)
        b    == BigMul(t, x.d)
        diff == IF BigCmp(a, b) >= 0 THEN BigSub(a, b) ELSE BigSub(b, a)
    IN  BigCmp(BigAdd(diff, diff), x.d) <= 0

\* the position where the number that starts at position p of s ends: digits,
\* a point and exactly three digits; 0 when no such number starts there
NumberEnd(s, p) ==
    LET stops == {i \in p..Len(s) : ~IsDigit(s[i])}
        dot   == Least(stops)
    IN  IF stops = {} THEN 0
        ELSE IF /\ dot > p
                /\ s[dot] = 46
                /\ dot + 3 <= Len(s)
                /\ \A i \in (dot + 1)..(dot + 3) : IsDigit(s[i])
                /\ (dot + 3 < Len(s) => ~IsDigit(s[dot + 4]))
        THEN dot + 3
        ELSE 0

TextPart(t) == [text |-> t, number |-> FALSE, value |-> Num(0)]
NumberPart(x) == [text |-> <<>>, number |-> TRUE, value |-> x]

\* s, from position p on, renders the parts
RECURSIVE Renders(_, _, _)
Renders(s, p, parts) ==
    IF parts = <<>> THEN p = Len(s) + 1
    ELSE IF Head(parts).number
    THEN /\ Head(parts).value.exc = ""
         /\ NumberEnd(s, p) > 0
         /\ NearestThousandth(ThousandthsOf(SubSeq(s, p, NumberEnd(s, p))),
                              Head(parts).value)
         /\ Renders(s, NumberEnd(s, p) + 1, Tail(parts))
    ELSE /\ p + Len(Head(parts).text) - 1 <= Len(s)
         /\ SubSeq(s, p, p + Len(Head(parts).text) - 1) = Head(parts).text
         /\ Renders(s, p + Len(Head(parts).text), Tail(parts))

\* the report on record t in a template of the six texts: the class name,
\* then the record's duration, distance, mean speed and calories
Report(texts, t) ==
    << TextPart(texts[1] \o ClassName(t) \o texts[2]),
       NumberPart(Num(t.duration)),
       TextPart(texts[3]),
       NumberPart(get_distance(t)),
       TextPart(texts[4]),
       NumberPart(get_mean_speed(t)),
       TextPart(texts[5]),
       NumberPart(get_spent_calories(t)),
       TextPart(texts[6]) >>

ProgramTexts ==
    <<TemplateText1, TemplateText2, TemplateText3, TemplateText4, TemplateText5,
      TemplateText6>>

\* "Workout type: "
EnglishText1 ==
    <<87, 111, 114, 107, 111, 117, 116, 32, 116, 121, 112, 101, 58, 32>>

\* "; Duration: "
EnglishText2 ==
    <<59, 32, 68, 117, 114, 97, 116, 105, 111, 110, 58, 32>>

\* " h; Distance: "
EnglishText3 ==
    <<32, 104, 59, 32, 68, 105, 115, 116, 97, 110, 99, 101, 58, 32>>

\* " km; Avg. speed: "
EnglishText4 ==
    <<32, 107, 109, 59, 32, 65, 118, 103, 46, 32, 115, 112, 101, 101, 100,
    58, 32>>

\* " km/h; Calories burned: "
EnglishText5 ==
    <<32, 107, 109, 47, 104, 59, 32, 67, 97, 108, 111, 114, 105, 101, 115,
    32, 98, 117, 114, 110, 101, 100, 58, 32>>

\* "."
EnglishText6 ==
    <<46>>

EnglishTexts ==
    <<EnglishText1, EnglishText2, EnglishText3, EnglishText4, EnglishText5,
      EnglishText6>>

C9_NoDrift ==
    [][returned'.call \in Queries
           => /\ training' = training
              /\ classAttrs' = classAttrs
              /\ classAttrs' = ClassTable
              /\ first[returned'.call].called
                    => returned'.value = first[returned'.call].value]_vars

C9_RepeatedQuery ==
    /\ returned.call = "get_spent_calories"
    /\ returned.again
    /\ returned.value.exc = ""
    /\ \A q \in Queries : first[q].called
    /\ printed # <<>>

====
